---------------------------- MODULE Spec2Model ----------------------------
(***************************************************************************)
(* Model of the typed event bus of src/src/index.ts                        *)
(* (createEventBusChannel: on, off, emit and the closure returned by on).  *)
(*                                                                         *)
(* The bus is a Map from event key to an array of handlers.  Arrays are    *)
(* JavaScript objects: `on` pushes into the array the Map holds, `off`     *)
(* stores a new filtered array, and `emit` runs Array.prototype.forEach    *)
(* over the array object it fetched from the Map.  The model therefore     *)
(* keeps a heap of array objects and lets the Map and every running emit   *)
(* hold references into it.                                                *)
(*                                                                         *)
(* Handlers and onError are code of the application.  While one of them    *)
(* runs it may call on, off or an unsubscribe closure any number of times, *)
(* and then returns or throws: the model makes each of those a step of its *)
(* own, with a call stack of running emits.                                *)
(***************************************************************************)
EXTENDS Naturals, Sequences, FiniteSets, TLC

\* ------------------------------------------------------------------ bounds
\* Live registrations (array entries reachable from the Map) the
\* application keeps at one time.
MaxRegs == 3
\* Emit calls running at one time (an emit called at top level, and emits
\* called by handlers and onError callbacks of a running emit).
MaxDepth == 2

\* ------------------------------------------------------------ value spaces
Keys == {"k1", "k2"}
Handlers == {"h1", "h2", "h3"}
\* Five kinds of application are explored.  A "fanout" application
\* subscribes any handler under one key, and its callbacks unsubscribe
\* during a dispatch but subscribe only outside one.  A "resubscribe"
\* application subscribes two handlers under one key, also from its
\* callbacks during a dispatch.  A "routing" application subscribes one
\* handler under either key, also during a dispatch, emits either payload
\* and throws either error.  A "nested" application subscribes one handler
\* under one key, outside a dispatch, and its callbacks unsubscribe and
\* call emit.  An "instances" application uses two buses, made by two
\* calls of createEventBusChannel with the same argument: it subscribes
\* one handler to the first and that handler and another to the second,
\* under the same key and outside a dispatch, and its callbacks
\* unsubscribe from either bus.  (off and emit may name any key and handler
\* in all of them.)
Apps == {"fanout", "resubscribe", "routing", "nested", "instances"}
Subscribers(a) ==
    CASE a = "fanout"      -> ("k1" :> Handlers) @@ ("k2" :> {})
      [] a = "resubscribe" -> ("k1" :> {"h1", "h2"}) @@ ("k2" :> {})
      [] a = "routing"     -> ("k1" :> {"h1"}) @@ ("k2" :> {"h1"})
      [] a = "nested"      -> ("k1" :> {"h1"}) @@ ("k2" :> {})
      [] a = "instances"   -> ("k1" :> {"h1"}) @@ ("k2" :> {})
\* The handlers the application subscribes to its second bus.
OtherSubscribers(a) ==
    IF a = "instances" THEN ("k1" :> {"h1", "h2"}) @@ ("k2" :> {})
                       ELSE ("k1" :> {}) @@ ("k2" :> {})
SubscribesInDispatch == {"resubscribe", "routing"}
EmitsInDispatch == {"nested"}
Payloads == {"p1", "p2"}
Emitted(a) == IF a = "routing" THEN Payloads ELSE {"p1"}
\* Values a callback may throw; "TypeError" is also what calling an
\* undefined config.onError raises.
Errors == {"e1", "TypeError"}
Thrown(a) == IF a = "routing" THEN Errors ELSE {"e1"}
\* createEventBusChannel(config?): no argument, an object without onError,
\* or an object with an onError callback.
Configs == {"undefined", "noOnError", "onError"}

\* The unsubscribe closures the application keeps hold of and may call later
\* (keys and handlers are interchangeable to the bus, so one pair stands for
\* any).
Kept == {[key |-> "k1", handler |-> "h1"]}

\* bus.get(key) of a key the Map does not hold.
Undefined == 0

VARIABLES
    app,     \* the kind of application using the bus (fixed)
    config,  \* the config argument captured by createEventBusChannel
    bus,     \* the Map: key -> reference of its handler array, or Undefined
    other,   \* the Map of the second bus (of another createEventBusChannel call)
    heap,    \* the array objects: reference -> sequence of handlers
    stack,   \* the running emit calls, outermost first
    tokens   \* the unsubscribe closures the application holds: (key, handler)

vars == <<app, config, bus, other, heap, stack, tokens>>

\* --------------------------------------------------------------- helpers
Range(s) == {s[i] : i \in 1..Len(s)}

\* Mutant: only the first matching entry is removed
\* (handlers.splice(handlers.indexOf(handler), 1)).
FilterFirstOnly(handlers, handler) ==
    IF \E i \in 1..Len(handlers) : handlers[i] = handler
    THEN LET i == CHOOSE j \in 1..Len(handlers) :
                      /\ handlers[j] = handler
                      /\ \A m \in 1..(j - 1) : handlers[m] # handler
         IN SubSeq(handlers, 1, i - 1) \o SubSeq(handlers, i + 1, Len(handlers))
    ELSE handlers

\* Mutant: the predicate is inverted (h === handler).
FilterInverted(handlers, handler) ==
    LET keep(h) == h = handler IN SelectSeq(handlers, keep)

\* handlers.filter((h) => h !== handler)
Filter(handlers, handler) ==
    LET keep(h) == h # handler IN SelectSeq(handlers, keep)

\* The entries of s other than h, in their order.
RECURSIVE Others(_, _)
Others(s, h) ==
    IF s = <<>> THEN <<>>
    ELSE IF Head(s) = h THEN Others(Tail(s), h)
         ELSE <<Head(s)>> \o Others(Tail(s), h)

\* The array the Map holds for key, as a sequence (<<>> for an absent key).
Registered(b, hp, key) ==
    IF b[key] = Undefined THEN <<>> ELSE hp[b[key]]

\* Number of entries reachable from the Map.
RECURSIVE SumLen(_, _, _)
SumLen(b, hp, ks) ==
    IF ks = {} THEN 0
    ELSE LET k == CHOOSE x \in ks : TRUE
         IN Len(Registered(b, hp, k)) + SumLen(b, hp, ks \ {k})

\* A fresh array object: the least reference not in use.
NewRef(hp) ==
    CHOOSE r \in 1..(Cardinality(DOMAIN hp) + 1) :
        /\ r \notin DOMAIN hp
        /\ \A q \in 1..(Cardinality(DOMAIN hp) + 1) : q \notin DOMAIN hp => r <= q

\* Array objects no longer referenced by a Map or by a running forEach are
\* reclaimed.
Live(b, o, st) ==
    ({b[k] : k \in Keys} \ {Undefined}) \cup ({o[k] : k \in Keys} \ {Undefined})
        \cup {st[i].handlers : i \in 1..Len(st)}

Collect(b, o, hp, st) == [r \in (DOMAIN hp) \cap Live(b, o, st) |-> hp[r]]

\* References are opaque to the program, so states that differ only in the
\* numbering of the array objects are the same state.  Canonical numbering:
\* the array the first bus's Map holds for a key gets the key's index, the
\* array the second bus's Map holds for it comes after those, and an array
\* only a running forEach still holds comes after both, by the outermost
\* emit holding it.
KeyIndex == ("k1" :> 1) @@ ("k2" :> 2)

FirstHolder(st, r) == CHOOSE i \in 1..Len(st) :
    /\ st[i].handlers = r
    /\ \A j \in 1..Len(st) : st[j].handlers = r => i <= j

Canon(b, o, st, r) ==
    IF \E k \in Keys : b[k] = r
    THEN KeyIndex[CHOOSE k \in Keys : b[k] = r]
    ELSE IF \E k \in Keys : o[k] = r
         THEN Cardinality(Keys) + KeyIndex[CHOOSE k \in Keys : o[k] = r]
         ELSE Cardinality(Keys) + Cardinality(Keys) + FirstHolder(st, r)

\* The state after a step: unreferenced arrays dropped, the rest renumbered.
Normalize(b, o, hp, st) ==
    LET live == (DOMAIN hp) \cap Live(b, o, st)
    IN [bus   |-> [k \in Keys |-> IF b[k] = Undefined THEN Undefined
                                  ELSE Canon(b, o, st, b[k])],
        other |-> [k \in Keys |-> IF o[k] = Undefined THEN Undefined
                                  ELSE Canon(b, o, st, o[k])],
        heap  |-> [c \in {Canon(b, o, st, r) : r \in live} |->
                      hp[CHOOSE r \in live : Canon(b, o, st, r) = c]],
        stack |-> [i \in 1..Len(st) |->
                      [st[i] EXCEPT !.handlers = Canon(b, o, st, @)]]]

\* ------------------------------------------------------- the three methods
\* Mutant: the handler is put in front (unshift instead of push).
onUnshift(b, hp, key, handler) ==
    LET r   == IF b[key] = Undefined THEN NewRef(hp) ELSE b[key]
        hp1 == IF b[key] = Undefined THEN (r :> <<>>) @@ hp ELSE hp
    IN [bus  |-> [b EXCEPT ![key] = r],
        heap |-> [hp1 EXCEPT ![r] = <<handler>> \o @]]

\* on(key, handler): create the array if the key is new, then push into the
\* array object the Map holds.
on(b, hp, key, handler) ==
    LET r   == IF b[key] = Undefined THEN NewRef(hp) ELSE b[key]
        hp1 == IF b[key] = Undefined THEN (r :> <<>>) @@ hp ELSE hp
    IN [bus  |-> [b EXCEPT ![key] = r],
        heap |-> [hp1 EXCEPT ![r] = Append(@, handler)]]

\* Mutant: the handler is removed from the array of every key, not only
\* from that of the key given.
offEverywhere(b, hp, key, handler) ==
    IF b[key] = Undefined
    THEN [bus |-> b, heap |-> hp]
    ELSE [bus |-> b, heap |-> [r \in DOMAIN hp |-> Filter(hp[r], handler)]]

\* Mutant: the handler is removed with splice(indexOf(handler), 1): the
\* first occurrence only, and the last entry when there is no occurrence
\* (indexOf is -1).
offSplice(b, hp, key, handler) ==
    IF b[key] = Undefined
    THEN [bus |-> b, heap |-> hp]
    ELSE LET a == hp[b[key]]
             r == NewRef(hp)
         IN [bus  |-> [b EXCEPT ![key] = r],
             heap |-> (r :> (IF handler \in Range(a) THEN FilterFirstOnly(a, handler)
                             ELSE IF a = <<>> THEN a
                             ELSE SubSeq(a, 1, Len(a) - 1))) @@ hp]

\* off(key, handler): store a new, filtered array under the key; the old
\* array object is left as it was.
off(b, hp, key, handler) ==
    IF b[key] = Undefined
    THEN [bus |-> b, heap |-> hp]
    ELSE LET r == NewRef(hp)
         IN [bus  |-> [b EXCEPT ![key] = r],
             heap |-> (r :> Filter(hp[b[key]], handler)) @@ hp]

\* Mutant: the closure removes one registration only (the latest of
\* handler under key).
unsubscribeOne(b, hp, t) ==
    IF b[t.key] = Undefined
    THEN [bus |-> b, heap |-> hp]
    ELSE LET r == NewRef(hp)
             rev(q) == [i \in 1..Len(q) |-> q[Len(q) + 1 - i]]
         IN [bus  |-> [b EXCEPT ![t.key] = r],
             heap |-> (r :> rev(FilterFirstOnly(rev(hp[b[t.key]]), t.handler))) @@ hp]

\* Mutant: the closure removes the registration its own on call made and
\* no other (here the earliest of handler under key still present).
unsubscribeOwn(b, hp, t) ==
    IF b[t.key] = Undefined
    THEN [bus |-> b, heap |-> hp]
    ELSE LET r == NewRef(hp)
         IN [bus  |-> [b EXCEPT ![t.key] = r],
             heap |-> (r :> FilterFirstOnly(hp[b[t.key]], t.handler)) @@ hp]

\* The closure returned by on(key, handler): () => { off(key, handler); }
unsubscribe(b, hp, t) == off(b, hp, t.key, t.handler)

\* emit starts handlers.forEach: the array object is the one the Map held
\* when emit was called, and forEach reads its length once, before the
\* first callback.
ForEachLen(hp, ref) == Len(hp[ref])

\* Mutant: the bound is the array's length now
\* (for (k = 0; k < handlers.length; k++)).
ForEachBoundLive(hp, f) == Len(hp[f.handlers])

\* forEach runs its callback while k is below the length it read at the
\* start, whatever the array's length has become.
ForEachBound(hp, f) == f.len

\* The element forEach passes to its k-th callback (k from 0): read from the
\* array object when that iteration starts.
ForEachElement(hp, f) == hp[f.handlers][f.k + 1]

\* Mutant: the handler is called with the key (fn(key)).
HandlerArgumentKey(f) == f.key

\* fn(payload): the argument the handler is called with.
HandlerArgument(f) == f.payload

\* Mutant: key and payload are passed in the wrong order.
OnErrorArgumentsSwapped(f, e) == [error |-> e, eventKey |-> f.payload, payload |-> f.key]

\* The arguments of config.onError(e, key, payload).
OnErrorArguments(f, e) == [error |-> e, eventKey |-> f.key, payload |-> f.payload]

\* No onError call is running.
NoArguments == [error |-> "none", eventKey |-> "none", payload |-> "none"]

\* Mutant: no try/catch around the handler call; its exception leaves emit.
CatchOutcomeUncaught(cfg) == "raise"

\* Mutant: config.onError(...) without the optional chaining on config.
CatchOutcomeUnchained(cfg) ==
    CASE cfg = "undefined" -> "raise"
      [] cfg = "onError"   -> "call"
      [] cfg = "noOnError" -> "raise"

\* What `config?.onError(e, key, payload)` does in the catch block:
\* nothing when config is undefined, a call when config.onError is a
\* function, a TypeError when config is an object without onError.
CatchOutcome(cfg) ==
    CASE cfg = "undefined" -> "skip"
      [] cfg = "onError"   -> "call"
      [] cfg = "noOnError" -> "raise"

\* --------------------------------------------------------- the call stack
\* Mutant: emit rejects a key that has no handler left
\* (if (!handlers.length) throw ...).
FrameThrowsOnEmpty(hp, key, payload, ref) ==
    [key      |-> key,
     payload  |-> payload,
     handlers |-> ref,
     len      |-> ForEachLen(hp, ref),
     k        |-> 0,
     pc       |-> IF hp[ref] = <<>> THEN "throw" ELSE "forEach",
     e        |-> "none",
     args     |-> NoArguments,
     err      |-> IF hp[ref] = <<>> THEN "e1" ELSE "none",
     snap     |-> hp[ref],
     called   |-> <<>>,
     failed   |-> FALSE,
     nested   |-> FALSE,
     own      |-> TRUE,
     want     |-> hp[ref]]

\* Mutant: emit reports a key that has no handler left to onError
\* (if (!handlers.length) config?.onError(new Error(...), key, payload)).
FrameReportsEmpty(hp, key, payload, ref) ==
    [key      |-> key,
     payload  |-> payload,
     handlers |-> ref,
     len      |-> ForEachLen(hp, ref),
     k        |-> 0,
     pc       |-> IF hp[ref] = <<>> THEN "onError" ELSE "forEach",
     e        |-> IF hp[ref] = <<>> THEN "e1" ELSE "none",
     args     |-> IF hp[ref] = <<>>
                  THEN [error |-> "e1", eventKey |-> key, payload |-> payload]
                  ELSE NoArguments,
     err      |-> "none",
     snap     |-> hp[ref],
     called   |-> <<>>,
     failed   |-> FALSE,
     nested   |-> FALSE,
     own      |-> TRUE,
     want     |-> hp[ref]]

Frame(hp, key, payload, ref) ==
    [key      |-> key,
     payload  |-> payload,
     handlers |-> ref,                  \* the array object forEach runs over
     len      |-> ForEachLen(hp, ref),
     k        |-> 0,                    \* forEach's index
     pc       |-> "forEach",            \* forEach | fn | onError | throw
     e        |-> "none",               \* the caught exception (catch (e))
     args     |-> NoArguments,             \* the arguments onError is running with
     err      |-> "none",               \* the exception leaving emit (pc = throw)
     snap     |-> hp[ref],              \* history: the array when emit began
     called   |-> <<>>,                 \* history: [fn, arg] of each callback run
     failed   |-> FALSE,                \* history: some callback has thrown
     nested   |-> FALSE,                \* history: a callback has started an emit
     own      |-> TRUE,                 \* history: an emit of the first bus
     want     |-> hp[ref]]              \* history: snap with the on and off calls
                                        \* made for this key and bus since applied

\* The running emits, once the caller's callback has started a dispatch.
Calling(st) ==
    IF st = <<>> THEN st ELSE [st EXCEPT ![Len(st)].nested = TRUE]

\* The running emits, once on(key, handler) or off(key, handler) of the
\* first bus (own) or of the second has been called.
Noted(st, own, key, handler, call) ==
    [i \in 1..Len(st) |->
        IF st[i].key = key /\ st[i].own = own
        THEN [st[i] EXCEPT !.want = IF call = "on" THEN Append(@, handler)
                                                  ELSE Others(@, handler)]
        ELSE st[i]]

Top == stack[Len(stack)]
Below == SubSeq(stack, 1, Len(stack) - 1)
SetTop(f) == Append(Below, f)

\* Application code is running: at top level, or inside a handler or an
\* onError callback of the innermost emit.
CallerReady == IF stack = <<>> THEN TRUE ELSE Top.pc \in {"fn", "onError"}

\* ----------------------------------------------------------------- Init
Init ==
    /\ app \in Apps
    /\ config \in Configs
    /\ bus = [k \in Keys |-> Undefined]
    /\ other = [k \in Keys |-> Undefined]
    /\ heap = <<>>
    /\ stack = <<>>
    /\ tokens = {}

\* -------------------------------------------------------------- actions
\* The variables after a step that leaves the two Maps, the arrays and the
\* call stack as b, o, hp, st.
BecomesBoth(b, o, hp, st) ==
    LET n == Normalize(b, o, hp, st)
    IN /\ bus' = n.bus
       /\ other' = n.other
       /\ heap' = n.heap
       /\ stack' = n.stack

\* The same for a step of the first bus or of a running emit.
Becomes(b, hp, st) == BecomesBoth(b, other, hp, st)

\* The application calls on(key, handler); it keeps the returned closure if
\* it is one of Kept.
On(key, handler) ==
    /\ CallerReady
    /\ SumLen(bus, heap, Keys) + SumLen(other, heap, Keys) < MaxRegs
    /\ LET n == on(bus, heap, key, handler)
       IN Becomes(n.bus, n.heap, Noted(stack, TRUE, key, handler, "on"))
    /\ tokens' = tokens \cup ({[key |-> key, handler |-> handler]} \cap Kept)
    /\ UNCHANGED <<app, config>>

\* The application calls off(key, handler).
Off(key, handler) ==
    /\ CallerReady
    /\ LET n == off(bus, heap, key, handler)
       IN Becomes(n.bus, n.heap, Noted(stack, TRUE, key, handler, "off"))
    /\ UNCHANGED <<app, config, tokens>>

\* The application calls a closure that an earlier on returned.
Unsubscribe(t) ==
    /\ CallerReady
    /\ t \in tokens
    /\ LET n == unsubscribe(bus, heap, t)
       IN Becomes(n.bus, n.heap, Noted(stack, TRUE, t.key, t.handler, "off"))
    /\ UNCHANGED <<app, config, tokens>>

\* The application calls emit(key, payload): `if (handlers)` skips an
\* absent key, otherwise forEach starts.
Emit(key, payload) ==
    /\ CallerReady
    /\ IF bus[key] = Undefined
       THEN UNCHANGED <<bus, other, heap, stack>>
       ELSE Becomes(bus, heap,
                    Append(Calling(stack), Frame(heap, key, payload, bus[key])))
    /\ UNCHANGED <<app, config, tokens>>

\* Mutant: the Map is made once, at module level, and every bus uses it.
OnOtherShared(key, handler) ==
    /\ CallerReady
    /\ SumLen(bus, heap, Keys) + SumLen(other, heap, Keys) < MaxRegs
    /\ LET n == on(bus, heap, key, handler)
       IN BecomesBoth(n.bus, other, n.heap, Noted(stack, FALSE, key, handler, "on"))
    /\ UNCHANGED <<app, config, tokens>>

\* The same three calls on the second bus: the same code, closed over the
\* Map made by the other createEventBusChannel call.
OnOther(key, handler) ==
    /\ CallerReady
    /\ SumLen(bus, heap, Keys) + SumLen(other, heap, Keys) < MaxRegs
    /\ LET n == on(other, heap, key, handler)
       IN BecomesBoth(bus, n.bus, n.heap, Noted(stack, FALSE, key, handler, "on"))
    /\ UNCHANGED <<app, config, tokens>>

OffOther(key, handler) ==
    /\ CallerReady
    /\ LET n == off(other, heap, key, handler)
       IN BecomesBoth(bus, n.bus, n.heap, Noted(stack, FALSE, key, handler, "off"))
    /\ UNCHANGED <<app, config, tokens>>

EmitOther(key, payload) ==
    /\ CallerReady
    /\ IF other[key] = Undefined
       THEN UNCHANGED <<bus, other, heap, stack>>
       ELSE Becomes(bus, heap,
                    Append(Calling(stack),
                           [Frame(heap, key, payload, other[key]) EXCEPT !.own = FALSE]))
    /\ UNCHANGED <<app, config, tokens>>

\* forEach calls its callback on the next element: try { fn(payload) }.
Invoke ==
    /\ stack # <<>>
    /\ Top.pc = "forEach"
    /\ Top.k < ForEachBound(heap, Top)
    /\ stack' = SetTop([Top EXCEPT
            !.pc = "fn",
            !.called = Append(@, [fn  |-> ForEachElement(heap, Top),
                                  arg |-> HandlerArgument(Top)])])
    /\ UNCHANGED <<app, config, bus, other, heap, tokens>>

\* Mutant: the index does not move on when the handler returns.
HandlerReturnStays ==
    /\ stack # <<>>
    /\ Top.pc = "fn"
    /\ stack' = SetTop([Top EXCEPT !.pc = "forEach"])
    /\ UNCHANGED <<app, config, bus, other, heap, tokens>>

\* The running handler returns: forEach moves to the next index.
HandlerReturn ==
    /\ stack # <<>>
    /\ Top.pc = "fn"
    /\ stack' = SetTop([Top EXCEPT !.pc = "forEach", !.k = @ + 1])
    /\ UNCHANGED <<app, config, bus, other, heap, tokens>>

\* Mutant: the catch block also unsubscribes the handler that threw
\* (off(key, fn)).
HandlerThrowRemoves(e) ==
    /\ stack # <<>>
    /\ Top.pc = "fn"
    /\ LET f == [Top EXCEPT !.e = e, !.failed = TRUE]
           c == CatchOutcome(config)
           n == off(bus, heap, Top.key, ForEachElement(heap, Top))
       IN Becomes(n.bus, n.heap, SetTop(
            CASE c = "skip"  -> [f EXCEPT !.pc = "forEach", !.k = @ + 1, !.e = "none"]
              [] c = "call"  -> [f EXCEPT !.pc = "onError",
                                          !.args = OnErrorArguments(f, e)]
              [] c = "raise" -> [f EXCEPT !.pc = "throw", !.err = "TypeError"]))
    /\ UNCHANGED <<app, config, tokens>>

\* The running handler throws e: the catch block runs config?.onError(...).
HandlerThrow(e) ==
    /\ stack # <<>>
    /\ Top.pc = "fn"
    /\ LET f == [Top EXCEPT !.e = e, !.failed = TRUE]
           c == CatchOutcome(config)
       IN stack' = SetTop(
            CASE c = "skip"  -> [f EXCEPT !.pc = "forEach", !.k = @ + 1, !.e = "none"]
              [] c = "call"  -> [f EXCEPT !.pc = "onError",
                                          !.args = OnErrorArguments(f, e)]
              [] c = "raise" -> [f EXCEPT !.pc = "throw", !.err = "TypeError"])
    /\ UNCHANGED <<app, config, bus, other, heap, tokens>>

\* onError returns: the catch block is done, forEach moves on.
OnErrorReturn ==
    /\ stack # <<>>
    /\ Top.pc = "onError"
    /\ stack' = SetTop([Top EXCEPT !.pc = "forEach", !.k = @ + 1,
                                   !.e = "none", !.args = NoArguments])
    /\ UNCHANGED <<app, config, bus, other, heap, tokens>>

\* Mutant: the onError call is wrapped in a try/catch of its own, and
\* forEach moves on.
OnErrorThrowSwallowed(e) ==
    /\ stack # <<>>
    /\ Top.pc = "onError"
    /\ stack' = SetTop([Top EXCEPT !.pc = "forEach", !.k = @ + 1,
                                   !.e = "none", !.args = NoArguments])
    /\ UNCHANGED <<app, config, bus, other, heap, tokens>>

\* onError throws e: nothing catches it inside emit.
OnErrorThrow(e) ==
    /\ stack # <<>>
    /\ Top.pc = "onError"
    /\ stack' = SetTop([Top EXCEPT !.pc = "throw", !.err = e])
    /\ UNCHANGED <<app, config, bus, other, heap, tokens>>

\* Mutant: the index forEach runs on is shared by every running emit, so
\* the end of a nested dispatch is the end of the dispatches around it.
EmitReturnEndsOuter ==
    /\ stack # <<>>
    /\ Top.pc = "forEach"
    /\ Top.k >= ForEachBound(heap, Top)
    /\ Becomes(bus, heap, <<>>)
    /\ UNCHANGED <<app, config, tokens>>

\* Mutant: emit puts the array it ran over back into the Map when it is
\* done (bus.set(key, handlers)).
EmitReturnRestores ==
    /\ stack # <<>>
    /\ Top.pc = "forEach"
    /\ Top.k >= ForEachBound(heap, Top)
    /\ Becomes([bus EXCEPT ![Top.key] = Top.handlers], heap, Below)
    /\ UNCHANGED <<app, config, tokens>>

\* forEach is past its last index: emit returns to its caller.
EmitReturn ==
    /\ stack # <<>>
    /\ Top.pc = "forEach"
    /\ Top.k >= ForEachBound(heap, Top)
    /\ Becomes(bus, heap, Below)
    /\ UNCHANGED <<app, config, tokens>>

\* The exception leaves emit and reaches its caller: the application at top
\* level, or the handler or onError that called emit (which may catch it and
\* go on, or fail in turn by HandlerThrow / OnErrorThrow).
EmitThrow ==
    /\ stack # <<>>
    /\ Top.pc = "throw"
    /\ Becomes(bus, heap, Below)
    /\ UNCHANGED <<app, config, tokens>>

Next ==
    \/ \E key \in Keys : \E handler \in Subscribers(app)[key] :
          (stack = <<>> \/ app \in SubscribesInDispatch) /\ On(key, handler)
    \/ \E key \in Keys, handler \in Handlers : Off(key, handler)
    \/ \E t \in tokens : Unsubscribe(t)
    \/ \E key \in Keys, payload \in Emitted(app) :
          /\ stack = <<>> \/ (app \in EmitsInDispatch /\ Len(stack) < MaxDepth)
          /\ Emit(key, payload)
    \/ \E key \in Keys : \E handler \in OtherSubscribers(app)[key] :
          stack = <<>> /\ OnOther(key, handler)
    \/ \E key \in Keys, handler \in Handlers :
          app = "instances" /\ OffOther(key, handler)
    \/ \E key \in Keys, payload \in Emitted(app) :
          app = "instances" /\ stack = <<>> /\ EmitOther(key, payload)
    \/ Invoke
    \/ HandlerReturn
    \/ \E e \in Thrown(app) : HandlerThrow(e)
    \/ OnErrorReturn
    \/ \E e \in Thrown(app) : OnErrorThrow(e)
    \/ EmitReturn
    \/ EmitThrow

Spec == Init /\ [][Next]_vars

\* Execution is synchronous: forEach goes on to its next callback and emit
\* to its end as soon as the callback before has ended; and the handlers
\* and onError callbacks considered are those that end, by returning or by
\* throwing, whatever calls they make first.
Fairness ==
    /\ WF_vars(Invoke)
    /\ WF_vars(HandlerReturn \/ \E e \in Thrown(app) : HandlerThrow(e))
    /\ WF_vars(OnErrorReturn \/ \E e \in Thrown(app) : OnErrorThrow(e))
    /\ WF_vars(EmitReturn)
    /\ WF_vars(EmitThrow)

FairSpec == Spec /\ Fairness

\* ------------------------------------------------------------ properties
\* The sequence the Map holds for key now, and the one it holds once a call
\* has left the Map and the arrays as n.bus and n.heap.
Now(key) == Registered(bus, heap, key)
NowOther(key) == Registered(other, heap, key)
After(n, key) == Registered(n.bus, n.heap, key)

Frames == {stack[i] : i \in 1..Len(stack)}

\* The handlers an emit has called so far, in call order.
Fns(f) == [i \in 1..Len(f.called) |-> f.called[i].fn]

Count(s, h) == Cardinality({i \in 1..Len(s) : s[i] = h})

\* emit is about to return to its caller / an exception is about to leave it.
Returning(f) == f.pc = "forEach" /\ f.k >= f.len
Aborting(f) == f.pc = "throw"

\* C1 as stated: a top-level emit(K,P) calls each handler exactly as many
\* times as it occurs in K's sequence when emit is called, each time with P,
\* and calls no other handler.  Stated for a bus whose onError is configured
\* (a callback that may itself throw), at the moment emit ends, whether by
\* returning or by an exception leaving it.
C1_Original ==
    config = "onError" =>
        \A f \in Frames : (Returning(f) \/ Aborting(f)) =>
            /\ \A h \in Handlers : Count(Fns(f), h) = Count(f.snap, h)
            /\ \A i \in 1..Len(f.called) : f.called[i].arg = f.payload

\* C1 (amended): every call a top-level emit(K,P) makes passes exactly P; no
\* handler is called more often than it occurs in K's sequence as it was
\* when emit was called (so none that is absent from it); an emit that
\* returns has called each handler exactly as many times as it occurs there,
\* and an emit that an exception leaves (onError threw, or the config object
\* has no onError) has called exactly the entries up to the one whose
\* failure could not be routed.
C1_DeliveryCount ==
    \A f \in Frames :
        /\ \A i \in 1..Len(f.called) : f.called[i].arg = f.payload
        /\ \A h \in Handlers : Count(Fns(f), h) <= Count(f.snap, h)
        /\ Returning(f) =>
               \A h \in Handlers : Count(Fns(f), h) = Count(f.snap, h)
        /\ Aborting(f) =>
               /\ Len(f.called) = f.k + 1
               /\ Len(f.called) <= Len(f.snap)
               /\ \A h \in Handlers :
                      Count(Fns(f), h) = Count(SubSeq(f.snap, 1, f.k + 1), h)

\* A returning emit that called one handler twice because it was subscribed
\* twice, and another handler once, with the second payload.
C1_Witness ==
    \E f \in Frames :
        /\ Returning(f)
        /\ \E h \in Handlers : Count(f.snap, h) = 2 /\ Count(Fns(f), h) = 2
        /\ f.payload = "p2"

\* C2: an emit calls the handlers in the order of K's sequence, one at a
\* time (the call of entry k+1 starts only once the k calls before it are
\* over), and on(K,H) puts the new registration after every registration K
\* already has, so a handler removed and subscribed again is called last.
InOrder(f) ==
    /\ Len(f.called) <= Len(f.snap)
    /\ \A i \in 1..Len(f.called) : f.called[i].fn = f.snap[i]
    /\ Len(f.called) = IF f.pc = "forEach" THEN f.k ELSE f.k + 1

C2_DispatchOrder ==
    /\ \A f \in Frames : InOrder(f)
    /\ \A key \in Keys, h \in Handlers :
          After(on(bus, heap, key, h), key) = Append(Now(key), h)

\* An emit over <<h1, h2>> is returning, having called h1 and then h2;
\* during it h1 was removed and subscribed again, and now comes after h2.
C2_Witness ==
    \E f \in Frames :
        /\ f.key = "k1"
        /\ Returning(f)
        /\ f.snap = <<"h1", "h2">>
        /\ Fns(f) = <<"h1", "h2">>
        /\ Now("k1") = <<"h2", "h1">>

\* C3: off(K,H), called in any state, leaves no occurrence of H in K's
\* sequence; no call other than on(K,H) puts H into K's sequence; and an
\* emit that began while H was not in K's sequence never calls H, whatever
\* is subscribed during the dispatch.
C3_OffRemovesAll ==
    /\ \A key2 \in Keys, g \in Handlers :
          LET offed == off(bus, heap, key2, g)
              onned == on(bus, heap, key2, g)
          IN /\ g \notin Range(After(offed, key2))
             /\ \A key \in Keys :
                   /\ Range(After(offed, key)) \subseteq Range(Now(key))
                   /\ Range(After(onned, key)) \subseteq
                          Range(Now(key)) \cup (IF key = key2 THEN {g} ELSE {})
    /\ \A f \in Frames : Range(Fns(f)) \subseteq Range(f.snap)

\* The application holds the closure of on(k1,h1), so h1 was subscribed
\* under k1; it is in k1's sequence no more, and an emit over the two other
\* handlers is returning without having called it.
C3_Witness ==
    /\ [key |-> "k1", handler |-> "h1"] \in tokens
    /\ \E f \in Frames :
          /\ f.key = "k1"
          /\ Returning(f)
          /\ Len(f.snap) = 2
          /\ Count(f.snap, "h1") = 0
          /\ Count(Fns(f), "h1") = 0

\* C4: off(K,H), called in any state directly or through a closure, leaves
\* the entries of K's sequence that are not H as they were: the same
\* handlers, as many times, in the same order; and an emit called next runs
\* over exactly as many entries as remain.
KeepsOthers(n, key, h) ==
    LET kept == Others(Now(key), h)
    IN /\ Others(After(n, key), h) = kept
       /\ n.bus[key] # Undefined => ForEachLen(n.heap, n.bus[key]) = Len(kept)

C4_OffKeepsOthers ==
    /\ \A key \in Keys, h \in Handlers : KeepsOthers(off(bus, heap, key, h), key, h)
    /\ \A t \in tokens : KeepsOthers(unsubscribe(bus, heap, t), t.key, t.handler)

\* During an emit over <<h2, h1, h3>>, h1 has been removed and k1's sequence
\* is <<h2, h3>>.
C4_Witness ==
    \E f \in Frames :
        /\ f.key = "k1"
        /\ f.snap = <<"h2", "h1", "h3">>
        /\ Now("k1") = <<"h2", "h3">>

\* C5 as stated: the handlers one emit(K,P) calls are exactly the entries
\* of K's sequence as it was when emit began iterating, each once and in
\* order, whatever on and off calls the handlers make meanwhile.  Stated for
\* a bus whose onError is configured, at the moment emit ends.
C5_Original ==
    config = "onError" =>
        \A f \in Frames : (Returning(f) \/ Aborting(f)) => Fns(f) = f.snap

\* C5 (amended): whatever on and off calls the handlers and onError make
\* during the dispatch, the k-th call of an emit is to the k-th entry of K's
\* sequence as it was when emit began iterating; an emit that returns has
\* called exactly those entries, each once and in order (none added during
\* the dispatch, none skipped because it was removed during the dispatch);
\* an emit that an exception leaves has called exactly the entries up to the
\* one whose failure could not be routed.
C5_Snapshot ==
    \A f \in Frames :
        /\ f.len = Len(f.snap)
        /\ Len(f.called) <= Len(f.snap)
        /\ \A i \in 1..Len(f.called) : f.called[i].fn = f.snap[i]
        /\ Returning(f) => Fns(f) = f.snap
        /\ Aborting(f) => Len(f.called) = f.k + 1

\* An emit over <<h1, h2>> is returning, having called h1 then h2 and
\* nothing more, although meanwhile h2 was removed from k1's sequence and h1
\* subscribed to it once more.
C5_Witness ==
    \E f \in Frames :
        /\ f.key = "k1"
        /\ Returning(f)
        /\ f.snap = <<"h1", "h2">>
        /\ Fns(f) = <<"h1", "h2">>
        /\ Now("k1") = <<"h1", "h1">>

\* C6: on a bus with onError configured, an exception leaves emit only out
\* of a running onError (so never when every onError call returns); after a
\* handler failure whose onError call returned, forEach goes on to the next
\* entry, and the emit that returns has called every entry of the sequence
\* with P.
C6_FaultIsolation ==
    config = "onError" =>
        \A f \in Frames :
            /\ Aborting(f) => (f.args # NoArguments /\ f.failed)
            /\ (f.failed /\ f.pc = "forEach") => Len(f.called) = f.k
            /\ (f.failed /\ Returning(f)) =>
                   /\ Fns(f) = f.snap
                   /\ \A i \in 1..Len(f.called) : f.called[i].arg = f.payload

\* onError is configured, a handler of this emit has thrown, onError has
\* returned, and the last entry of the sequence is now running.
C6_Witness ==
    /\ config = "onError"
    /\ \E f \in Frames :
          /\ f.failed
          /\ f.pc = "fn"
          /\ Len(f.called) = Len(f.snap)
          /\ Len(f.snap) >= 2

\* emit has moved, in this step, into a call of onError.
EntersOnError ==
    /\ stack # <<>>
    /\ Len(stack') = Len(stack)
    /\ Top.pc # "onError"
    /\ stack'[Len(stack')].pc = "onError"

\* C7: on a bus with onError configured, the step in which a handler throws
\* e under emit(K,P) is the step in which onError is called with (e, K, P),
\* before forEach moves on; onError is called in no other step, and a
\* handler that returns leads straight to the next entry.
C7_ErrorRouting ==
    [][ config = "onError" =>
          /\ \A e \in Errors :
                HandlerThrow(e) =>
                    /\ EntersOnError
                    /\ stack'[Len(stack')].args =
                           [error |-> e, eventKey |-> Top.key, payload |-> Top.payload]
                    /\ stack'[Len(stack')].k = Top.k
          /\ EntersOnError => (Top.pc = "fn" /\ \E e \in Errors : HandlerThrow(e))
          /\ HandlerReturn =>
                (stack'[Len(stack')].pc = "forEach" /\ stack'[Len(stack')].args = NoArguments)
      ]_vars

\* onError is running for the second entry of k2's sequence, with the
\* TypeError that handler threw and the second payload.
C7_Witness ==
    /\ config = "onError"
    /\ \E f \in Frames :
          /\ f.pc = "onError"
          /\ f.k = 1
          /\ f.args = [error |-> "TypeError", eventKey |-> "k2", payload |-> "p2"]

\* C8: on a bus created with no config, no exception ever leaves emit and
\* onError is never called; when handlers threw, forEach still went on, and
\* the emit that returns has called every entry of the sequence.
C8_NoConfigSwallows ==
    config = "undefined" =>
        \A f \in Frames :
            /\ ~Aborting(f)
            /\ f.pc # "onError"
            /\ f.args = NoArguments
            /\ (f.failed /\ f.pc = "forEach") => Len(f.called) = f.k
            /\ Returning(f) => Fns(f) = f.snap

\* No config; a handler of this emit has thrown; the emit is returning after
\* having called both entries.
C8_Witness ==
    /\ config = "undefined"
    /\ \E f \in Frames :
          /\ f.failed
          /\ Returning(f)
          /\ Len(f.called) >= 2

\* C9 as stated: on a bus created with a config object that has no onError,
\* no exception leaves emit when a handler throws.
C9_OmittedOnErrorSwallows ==
    config = "noOnError" => \A f \in Frames : ~Aborting(f)

\* C10: calling the closure returned by on(K,H), in whatever state and
\* however often, leaves the Map and the arrays exactly as off(K,H) would
\* from that state: no occurrence of H is left in K's sequence, whenever it
\* was subscribed.
C10_TokenIsOff ==
    \A t \in tokens :
        LET viaToken == unsubscribe(bus, heap, t)
            viaOff   == off(bus, heap, t.key, t.handler)
        IN /\ viaToken = viaOff
           /\ Count(After(viaToken, t.key), t.handler) = 0
           /\ unsubscribe(viaToken.bus, viaToken.heap, t)
                  = off(viaOff.bus, viaOff.heap, t.key, t.handler)

\* The application holds the closure of on(k1,h1); h1 was in k1's sequence
\* twice when the running emit began, and is in it no more.
C10_Witness ==
    /\ [key |-> "k1", handler |-> "h1"] \in tokens
    /\ \E f \in Frames :
          /\ f.key = "k1"
          /\ Count(f.snap, "h1") = 2
          /\ Len(f.snap) = 3
          /\ Count(Now("k1"), "h1") = 0
          /\ Len(Now("k1")) = 1

\* C11 as stated: the closure returned by one on(K,H) call removes exactly
\* the registration that call made, so when H is in K's sequence twice one
\* call of the closure leaves it there once.
C11_Original ==
    \A t \in tokens :
        Count(Now(t.key), t.handler) = 2 =>
            Count(After(unsubscribe(bus, heap, t), t.key), t.handler) = 1

\* C11 (amended): a call of the closure returned by on(K,H) removes every
\* registration of H under K, whichever on call made it and however many
\* there are, and nothing else: after the call K's sequence is its entries
\* other than H, in their order, and the next emit(K, .) runs over exactly
\* those, so it calls H zero times.
C11_TokenRemovesAll ==
    [][ \A t \in tokens :
          Unsubscribe(t) =>
              /\ Count(Registered(bus', heap', t.key), t.handler) = 0
              /\ Registered(bus', heap', t.key) = Others(Now(t.key), t.handler)
              /\ bus'[t.key] # Undefined =>
                     ForEachLen(heap', bus'[t.key]) = Len(Others(Now(t.key), t.handler))
      ]_vars

\* The application holds the closure of on(k1,h1); the running emit began
\* over <<h1, h1>> and has called both entries, and one removal has left
\* k1 with an empty sequence.
C11_Witness ==
    /\ [key |-> "k1", handler |-> "h1"] \in tokens
    /\ \E f \in Frames :
          /\ f.key = "k1"
          /\ f.snap = <<"h1", "h1">>
          /\ Fns(f) = <<"h1", "h1">>
          /\ bus["k1"] # Undefined
          /\ Now("k1") = <<>>

\* C12: off(K,H) called, in any state, for a key the Map does not hold or
\* whose sequence does not contain H leaves the sequence of every key as it
\* was (off has no path that throws); and off(K,H) called twice leaves
\* every key's sequence as one call does.
C12_OffNoOpIdempotent ==
    \A key \in Keys, h \in Handlers :
        LET once  == off(bus, heap, key, h)
            twice == off(once.bus, once.heap, key, h)
        IN /\ h \notin Range(Now(key)) =>
                  \A k \in Keys : After(once, k) = Now(k)
           /\ bus[key] = Undefined => once.bus[key] = Undefined
           /\ \A k \in Keys : After(twice, k) = After(once, k)

\* During an emit over <<h1, h2>> a callback has called off for a handler
\* that is not subscribed: k1 has a new array object with the same
\* entries; and k2 was never subscribed to.
C12_Witness ==
    /\ app = "fanout"
    /\ bus["k2"] = Undefined
    /\ \E f \in Frames :
          /\ f.key = "k1"
          /\ f.snap = <<"h1", "h2">>
          /\ bus["k1"] # Undefined
          /\ bus["k1"] # f.handlers
          /\ Now("k1") = f.snap

\* C13: emit(K,P) called while K has no subscriber leaves the Map and every
\* key's sequence as they were; for a key the Map does not hold it returns
\* at once, and for a key whose array is empty forEach has nothing to call:
\* the emit has called no handler and no onError, no exception is leaving
\* it, and its next step is its return, which changes nothing either.
C13_EmitNoSubscribers ==
    [][ /\ \A key \in Keys, payload \in Payloads :
              (Now(key) = <<>> /\ Emit(key, payload)) =>
                  /\ bus' = bus
                  /\ \A k \in Keys : Registered(bus', heap', k) = Now(k)
                  /\ IF bus[key] = Undefined
                     THEN stack' = stack
                     ELSE /\ Len(stack') = Len(stack) + 1
                          /\ Returning(stack'[Len(stack')])
                          /\ stack'[Len(stack')].called = <<>>
                          /\ stack'[Len(stack')].args = NoArguments
        /\ (stack # <<>> /\ stack' # stack) =>
              (Top.snap = <<>> =>
                  /\ EmitReturn
                  /\ Top.called = <<>>
                  /\ \A k \in Keys : Registered(bus', heap', k) = Now(k))
      ]_vars

\* The application holds the closure of on(k1,h1), so k1 was subscribed to;
\* every handler of k1 has been removed since, and an emit for k1 is about
\* to return without having called anything.
C13_Witness ==
    /\ [key |-> "k1", handler |-> "h1"] \in tokens
    /\ bus["k1"] # Undefined
    /\ Now("k1") = <<>>
    /\ \E f \in Frames :
          /\ f.key = "k1"
          /\ f.snap = <<>>
          /\ f.called = <<>>
          /\ Returning(f)

\* C14: on(K,H), off(K,H) and the closure of on(K,H), called in any state,
\* leave the sequence of every key other than K as it was; emit(K,P) runs
\* over K's own sequence, whatever other keys hold, and makes no more calls
\* than that sequence had entries, so a handler subscribed once under each
\* of two keys is called once by an emit to either.
C14_KeyIsolation ==
    /\ \A key \in Keys, h \in Handlers :
          \A k \in Keys \ {key} :
              /\ After(on(bus, heap, key, h), k) = Now(k)
              /\ After(off(bus, heap, key, h), k) = Now(k)
    /\ \A t \in tokens :
          \A k \in Keys \ {t.key} : After(unsubscribe(bus, heap, t), k) = Now(k)
    /\ \A key \in Keys, payload \in Payloads :
          bus[key] # Undefined =>
              LET f == Frame(heap, key, payload, bus[key])
              IN f.key = key /\ f.snap = Now(key) /\ f.len = Len(Now(key))
    /\ \A f \in Frames : Len(f.called) <= f.len

\* h1 was subscribed under k1 and under k2; it has been removed from k1,
\* whose sequence is now empty, and is still registered once under k2,
\* where an emit of the second payload has called it once and is
\* returning.
C14_Witness ==
    /\ [key |-> "k1", handler |-> "h1"] \in tokens
    /\ bus["k1"] # Undefined
    /\ Now("k1") = <<>>
    /\ Now("k2") = <<"h1">>
    /\ \E f \in Frames :
          /\ f.key = "k2"
          /\ f.payload = "p2"
          /\ Fns(f) = <<"h1">>
          /\ Returning(f)

\* C15: both buses start with no handler under any key; a call of on, off
\* or emit of one bus leaves every key's sequence of the other bus as it
\* was; and the emit of a bus runs over the sequence its own bus holds for
\* the key, whatever the other bus holds for it.
C15_InstanceIndependence ==
    /\ \A k \in Keys : Now(k) = <<>> /\ NowOther(k) = <<>>
    /\ [][ /\ (\E k \in Keys : Registered(bus', heap', k) # Now(k)) =>
                 ~( \/ \E key \in Keys, h \in Handlers :
                          OnOther(key, h) \/ OffOther(key, h)
                    \/ \E key \in Keys, payload \in Payloads : EmitOther(key, payload) )
           /\ (\E k \in Keys : Registered(other', heap', k) # NowOther(k)) =>
                 ~( \/ \E key \in Keys, h \in Handlers : On(key, h) \/ Off(key, h)
                    \/ \E t \in tokens : Unsubscribe(t)
                    \/ \E key \in Keys, payload \in Payloads : Emit(key, payload) )
           /\ Len(stack') > Len(stack) =>
                 \A key \in Keys, payload \in Payloads :
                     /\ Emit(key, payload) => stack'[Len(stack')].snap = Now(key)
                     /\ EmitOther(key, payload) =>
                            stack'[Len(stack')].snap = NowOther(key)
          ]_vars

\* The first bus holds h1 under k1 and the second holds h2 and h1 under the
\* same key; an emit of the first bus has called h1 and nothing else, and
\* is returning.
C15_Witness ==
    /\ Now("k1") = <<"h1">>
    /\ NowOther("k1") = <<"h2", "h1">>
    /\ \E f \in Frames :
          /\ f.key = "k1"
          /\ f.handlers = bus["k1"]
          /\ Fns(f) = <<"h1">>
          /\ Returning(f)

\* C16 as stated: when the configured onError throws while handling a
\* handler's failure, only that iteration is lost: forEach moves on to the
\* next entry (and so emit calls every remaining handler and returns).
C16_Original ==
    [][ \A e \in Errors :
          OnErrorThrow(e) =>
              /\ stack'[Len(stack')].pc = "forEach"
              /\ stack'[Len(stack')].k = Top.k + 1
      ]_vars

\* C16 (amended): when the configured onError throws e while handling a
\* handler's failure, e leaves forEach and emit: the emit calls no further
\* handler, its only next step is to pass e to its caller, and the Map and
\* every key's sequence are as they were.
C16_OnErrorThrowPropagates ==
    [][ /\ \A e \in Errors :
              OnErrorThrow(e) =>
                  /\ Len(stack') = Len(stack)
                  /\ stack'[Len(stack')].pc = "throw"
                  /\ stack'[Len(stack')].err = e
                  /\ stack'[Len(stack')].k = Top.k
                  /\ stack'[Len(stack')].called = Top.called
                  /\ \A k \in Keys : Registered(bus', heap', k) = Now(k)
        /\ (stack # <<>> /\ stack' # stack) =>
              (Top.pc = "throw" =>
                  /\ EmitThrow
                  /\ Len(stack') + 1 = Len(stack)
                  /\ stack' = Below
                  /\ \A k \in Keys : Registered(bus', heap', k) = Now(k))
      ]_vars

\* onError is configured and has thrown while handling the failure of the
\* first of three entries: the exception is leaving emit, which has called
\* that entry only.
C16_Witness ==
    /\ config = "onError"
    /\ \E f \in Frames :
          /\ Aborting(f)
          /\ f.args # NoArguments
          /\ f.err = "e1"
          /\ Len(f.snap) = 3
          /\ Len(f.called) = 1

\* A running emit but for the identity of the array object it runs over
\* and the record of the on and off calls made since it began.
Position(f) == [f EXCEPT !.handlers = Undefined, !.want = <<>>]

\* C17 as stated: an emit whose callbacks have called emit still calls
\* every entry of its own snapshot exactly once, in order.  Stated for a
\* bus whose onError is configured, at the moment that emit ends.
C17_Original ==
    config = "onError" =>
        \A f \in Frames :
            (f.nested /\ (Returning(f) \/ Aborting(f))) => Fns(f) = f.snap

\* C17 (amended): an emit called by a handler or an onError of a running
\* emit runs over the sequence its key has at that moment; while it runs,
\* the emits around it stay where they are, inside that callback; when it
\* ends, by returning or by an exception, the caller's callback goes on
\* from the same place; and an emit whose callbacks have called emit calls
\* the entries of its own snapshot in order, each once, all of them if it
\* returns.
C17_ReentrantEmit ==
    [][ /\ \A f \in Frames :
              /\ Len(f.called) <= Len(f.snap)
              /\ \A i \in 1..Len(f.called) : f.called[i].fn = f.snap[i]
              /\ (f.nested /\ Returning(f)) => Fns(f) = f.snap
        /\ \A i \in 1..Len(stack) :
              i < Len(stack) =>
                  /\ stack[i].pc \in {"fn", "onError"}
                  /\ i <= Len(stack')
                  /\ Position(stack'[i]) = Position(stack[i])
        /\ (stack # <<>> /\ Len(stack') > Len(stack)) =>
              /\ Len(stack') = Len(stack) + 1
              /\ Position(stack'[Len(stack)]) = Position([Top EXCEPT !.nested = TRUE])
              /\ \A key \in Keys, payload \in Payloads :
                    Emit(key, payload) =>
                        /\ stack'[Len(stack')].snap = Now(key)
                        /\ stack'[Len(stack')].len = Len(Now(key))
                        /\ stack'[Len(stack')].k = 0
        /\ (Len(stack) > 1 /\ Len(stack') < Len(stack)) =>
              /\ EmitReturn \/ EmitThrow
              /\ Len(stack') + 1 = Len(stack)
              /\ Position(stack'[Len(stack')]) = Position(stack[Len(stack')])
      ]_vars

\* An emit over <<h1, h1>> is returning after having called both entries;
\* one of its callbacks called emit, and h1 has been removed from k1
\* meanwhile.
C17_Witness ==
    /\ Len(stack) = 1
    /\ stack[1].nested
    /\ stack[1].key = "k1"
    /\ stack[1].snap = <<"h1", "h1">>
    /\ Fns(stack[1]) = <<"h1", "h1">>
    /\ Returning(stack[1])
    /\ bus["k1"] # Undefined
    /\ Now("k1") = <<>>

\* The sequence the bus of running emit f holds for f's key.
Held(f) == IF f.own THEN Now(f.key) ELSE NowOther(f.key)

\* C18: all through an emit(K,P), and when it returns or an exception
\* leaves it, K's sequence is the sequence K had when the emit began with
\* every on(K, .) and off(K, .) called since applied to it in call order
\* (on appends the handler, off drops its every occurrence); that is the
\* sequence the next emit(K, .) runs over.
C18_MutationsPersist ==
    [][ /\ \A f \in Frames : Held(f) = f.want
        /\ (stack # <<>> /\ Len(stack') < Len(stack)) =>
              /\ Top.own => Registered(bus', heap', Top.key) = Top.want
              /\ ~Top.own => Registered(other', heap', Top.key) = Top.want
              /\ (Top.own /\ bus'[Top.key] # Undefined) =>
                     Frame(heap', Top.key, Top.payload, bus'[Top.key]).snap = Top.want
      ]_vars

\* An emit over <<h1>> is returning; during it h1 was removed and h2
\* subscribed twice, and k1's sequence is <<h2, h2>>.
C18_Witness ==
    \E f \in Frames :
        /\ f.key = "k1"
        /\ Returning(f)
        /\ f.snap = <<"h1">>
        /\ f.want = <<"h2", "h2">>
        /\ Now("k1") = <<"h2", "h2">>

\* C19 as stated: an emit whose callbacks return or throw and do not call
\* emit ends after exactly as many handler calls as K's sequence had
\* entries when it began.  Stated for a bus whose onError is configured.
C19_Original ==
    (config = "onError" /\ app \notin EmitsInDispatch) =>
        \A f \in Frames :
            (Returning(f) \/ Aborting(f)) => Len(f.called) = Len(f.snap)

\* C19 (amended): an emit never makes more handler calls than K's sequence
\* had entries when it began, however many handlers its callbacks
\* subscribe meanwhile, and has made exactly that many when it returns;
\* and when the callbacks end and do not call emit, every emit ends, by
\* returning or by an exception leaving it.
C19_BoundedDispatch ==
    /\ [](\A f \in Frames :
            /\ f.k <= f.len
            /\ f.len = Len(f.snap)
            /\ Len(f.called) <= Len(f.snap)
            /\ Returning(f) => Len(f.called) = Len(f.snap))
    /\ (app \notin EmitsInDispatch /\ stack # <<>>) ~> (stack = <<>>)

\* An emit over <<h1>> is returning after one call, during which h1 was
\* subscribed to k1 twice more.
C19_Witness ==
    \E f \in Frames :
        /\ f.key = "k1"
        /\ Returning(f)
        /\ f.snap = <<"h1">>
        /\ Len(f.called) = 1
        /\ Now("k1") = <<"h1", "h1", "h1">>

\* C20: a step that changes a Map, the sequence of a key or the closures
\* held is a call of on, off or a closure by the application: the steps of
\* emit itself (its start, each call of a handler or of onError, each
\* return or throw of one, its end by return or by exception) leave every
\* sequence as it is; and every emit(K, .) runs over the whole sequence K
\* has when it is called, so a handler stays subscribed, and is called by
\* every emit, until off or a closure removes it.
C20_EmitKeepsRegistry ==
    [][ /\ (bus' # bus \/ \E k \in Keys : Registered(bus', heap', k) # Now(k)) =>
              ( \/ \E key \in Keys, h \in Handlers : On(key, h) \/ Off(key, h)
                \/ \E t \in tokens : Unsubscribe(t) )
        /\ (other' # other \/ \E k \in Keys : Registered(other', heap', k) # NowOther(k)) =>
              \E key \in Keys, h \in Handlers : OnOther(key, h) \/ OffOther(key, h)
        /\ tokens' # tokens => \E key \in Keys, h \in Handlers : On(key, h)
        /\ Len(stack') > Len(stack) =>
              /\ stack'[Len(stack')].k = 0
              /\ stack'[Len(stack')].len = Len(stack'[Len(stack')].snap)
              /\ stack'[Len(stack')].snap = Held(stack'[Len(stack')])
      ]_vars

\* An emit over three entries is returning after having called them all;
\* one of them threw; k1 still holds the same array, with the same three
\* entries.
C20_Witness ==
    \E f \in Frames :
        /\ f.key = "k1"
        /\ Returning(f)
        /\ f.failed
        /\ Len(f.snap) = 3
        /\ Fns(f) = f.snap
        /\ f.handlers = bus["k1"]
        /\ Now("k1") = f.snap

\* The keys with no handler: those the Map does not hold and those it holds
\* with an empty array.
EmptyKeys(b, hp) == {k \in Keys : Registered(b, hp, k) = <<>>}

\* Map b and arrays hp with a new empty array under each key of ks.
RECURSIVE WithEmpty(_, _, _)
WithEmpty(b, hp, ks) ==
    IF ks = {} THEN [bus |-> b, heap |-> hp]
    ELSE LET k == CHOOSE x \in ks : TRUE
             r == NewRef(hp)
         IN WithEmpty([b EXCEPT ![k] = r], (r :> <<>>) @@ hp, ks \ {k})

\* The registries that differ from (b, hp) only in which of the keys with
\* no handler are absent from the Map and which are held with an empty
\* array.
Variants(b, hp) ==
    { WithEmpty([k \in Keys |-> IF k \in absent THEN Undefined ELSE b[k]], hp,
                {k \in EmptyKeys(b, hp) \ absent : b[k] = Undefined})
        : absent \in SUBSET EmptyKeys(b, hp) }

\* The entries the forEach of emit(key, .) visits, in order (none when emit
\* skips forEach because the Map does not hold the key).
Dispatch(b, hp, key) ==
    IF b[key] = Undefined THEN <<>>
    ELSE [i \in 1..ForEachLen(hp, b[key]) |-> hp[b[key]][i]]

\* C21: take any state and any registry that differs from its own only in
\* that keys with no handler are absent instead of empty, or empty instead
\* of absent.  Both hold the same sequence for every key; the same call of
\* on, off or a closure leaves them with the same sequence for every key
\* again (so they differ again at most in that respect, and the same holds
\* of every call after); the same emit visits the same entries in both,
\* and an emit over an empty array ends as the emit of an absent key does,
\* by returning, with no handler and no onError called.
C21_EmptyIsAbsent ==
    \A v \in Variants(bus, heap) :
        /\ \A k \in Keys : After(v, k) = Now(k)
        /\ \A key \in Keys, h \in Handlers :
              LET onA  == on(bus, heap, key, h)
                  onB  == on(v.bus, v.heap, key, h)
                  offA == off(bus, heap, key, h)
                  offB == off(v.bus, v.heap, key, h)
              IN \A k \in Keys :
                    /\ After(onA, k) = After(onB, k)
                    /\ After(offA, k) = After(offB, k)
        /\ \A t \in tokens :
              \A k \in Keys :
                  After(unsubscribe(bus, heap, t), k) = After(unsubscribe(v.bus, v.heap, t), k)
        /\ \A key \in Keys :
              /\ Dispatch(v.bus, v.heap, key) = Dispatch(bus, heap, key)
              /\ (v.bus[key] # Undefined /\ Now(key) = <<>>) =>
                    \A payload \in Payloads :
                        LET f == Frame(v.heap, key, payload, v.bus[key])
                        IN Returning(f) /\ f.called = <<>> /\ f.args = NoArguments

\* The application holds the closure of on(k1,h1); off has removed the last
\* handler of k1, whose array is left empty in the Map, and k2 was never
\* subscribed to: four registries differ from this one only in which of
\* the two keys are absent and which are empty.
C21_Witness ==
    /\ [key |-> "k1", handler |-> "h1"] \in tokens
    /\ bus["k1"] # Undefined
    /\ Now("k1") = <<>>
    /\ bus["k2"] = Undefined
    /\ stack = <<>>
    /\ Cardinality(Variants(bus, heap)) = 4

=============================================================================
